---- MODULE Spec2Model ----
(***************************************************************************)
(* A model of the measurement pipeline of Predicting-Code-Bloat:           *)
(*   scripts/generate_data.py     the experiment driver (main), the source *)
(*                                mutator (modify_source_for_function) and *)
(*                                the size probe (compile_and_get_size);   *)
(*   scripts/extract_features.py  the feature extractor (main,             *)
(*                                find_function_cursor, get_features).     *)
(*                                                                         *)
(* Source text is a sequence of lexemes, each standing for the literal     *)
(* text of its own name ("template<", ">", " ", "void", "int", "(", ")",   *)
(* "{", "}", ";", a function name, an attribute).  The two regular         *)
(* expressions of modify_source_for_function are evaluated on such         *)
(* sequences the way Python's re evaluates them on the concatenated text.  *)
(***************************************************************************)
EXTENDS Integers, Sequences, FiniteSets, TLC

\* ------------------------------------------------------------------ bounds
\* chunks (declarations, calls) per generated source text
MaxChunks == 2
\* largest object-file size the toolchain reports
MaxSize == 2

\* ------------------------------------------------------- source mutation
NOINLINE == "__attribute__((noinline))"
ALWAYS_INLINE == "__attribute__((always_inline))"
Attributes == {NOINLINE, ALWAYS_INLINE}

\* \s of the regular expressions
IsSpace(text, k) == k \in 1..Len(text) /\ text[k] = " "

\* (?:void|int)
IsType(text, k) == k \in 1..Len(text) /\ text[k] \in {"void", "int"}

\* first index >= k that holds no whitespace (Len(text)+1 when there is none):
\* where a greedy \s* or \s+ starting at k stops
SkipWs(text, k) ==
    CHOOSE m \in k..(Len(text) + 1) :
        /\ m = Len(text) + 1 \/ text[m] # " "
        /\ \A n \in k..(m - 1) : text[n] = " "

Min(S) == CHOOSE m \in S : \A n \in S : m <= n

\* (?:void|int)\s+NAME\s*\(.*?\)\s*{  tried at index p: the set of indexes of
\* a ")" that can end the lazy .*? (DOTALL: it runs over anything)
SigCloses(text, func_name, p) ==
    IF ~(IsType(text, p) /\ IsSpace(text, p + 1)) THEN {}
    ELSE IF ~(/\ SkipWs(text, p + 1) <= Len(text)
              /\ text[SkipWs(text, p + 1)] = func_name) THEN {}
    ELSE IF ~(/\ SkipWs(text, SkipWs(text, p + 1) + 1) <= Len(text)
              /\ text[SkipWs(text, SkipWs(text, p + 1) + 1)] = "(") THEN {}
    ELSE {j \in (SkipWs(text, SkipWs(text, p + 1) + 1) + 1)..Len(text) :
            /\ text[j] = ")"
            /\ SkipWs(text, j + 1) <= Len(text)
            /\ text[SkipWs(text, j + 1)] = "{"}

\* every way pattern_regular matches somewhere in the text:
\* [start, close (the ")" ending group 1), brace (the "{" ending the match)]
RegularMatches(text, func_name) ==
    UNION {{[found |-> TRUE, start |-> p, close |-> j,
             brace |-> SkipWs(text, j + 1)] :
                j \in SigCloses(text, func_name, p)} : p \in 1..Len(text)}

\* pattern_regular: the leftmost match, its lazy .*? as short as possible
pattern_regular(text, func_name) ==
    IF RegularMatches(text, func_name) = {} THEN [found |-> FALSE]
    ELSE CHOOSE m \in RegularMatches(text, func_name) :
            \A o \in RegularMatches(text, func_name) :
                \/ m.start < o.start
                \/ m.start = o.start /\ m.close <= o.close

\* template<.*?>\s+ tried at index i: the set of indexes of a ">" that can end
\* the lazy .*?, each followed by whitespace and then the signature
TemplCloses(text, func_name, i) ==
    IF ~(i \in 1..Len(text) /\ text[i] = "template<") THEN {}
    ELSE {m \in (i + 1)..Len(text) :
            /\ text[m] = ">"
            /\ IsSpace(text, m + 1)
            /\ SigCloses(text, func_name, SkipWs(text, m + 1)) # {}}

\* every way pattern_template matches somewhere in the text:
\* [start, gt (the ">" ending the lazy .*? of group 1), sig (where group 2
\* starts), close, brace]
TemplateMatches(text, func_name) ==
    UNION {UNION {{[found |-> TRUE, start |-> i, gt |-> m,
                    sig |-> SkipWs(text, m + 1), close |-> j,
                    brace |-> SkipWs(text, j + 1)] :
                        j \in SigCloses(text, func_name, SkipWs(text, m + 1))} :
                     m \in TemplCloses(text, func_name, i)} :
              i \in 1..Len(text)}

\* pattern_template: the leftmost match, each lazy .*? as short as possible
pattern_template(text, func_name) ==
    IF TemplateMatches(text, func_name) = {} THEN [found |-> FALSE]
    ELSE CHOOSE m \in TemplateMatches(text, func_name) :
            \A o \in TemplateMatches(text, func_name) :
                \/ m.start < o.start
                \/ m.start = o.start /\ m.gt < o.gt
                \/ m.start = o.start /\ m.gt = o.gt /\ m.close <= o.close

Slice(text, a, b) == IF a > b THEN << >> ELSE SubSeq(text, a, b)

\* re.subn(pattern_template, "\1 ATTR \2 {", text, count=1) on a match
replacement_template(text, m, attribute) ==
    Slice(text, 1, m.sig - 1) \o <<" ", attribute, " ">>
        \o Slice(text, m.sig, m.close) \o <<" ", "{">>
        \o Slice(text, m.brace + 1, Len(text))

\* re.subn(pattern_regular, "ATTR \1 {", text, count=1) on a match
replacement_regular(text, m, attribute) ==
    Slice(text, 1, m.start - 1) \o <<attribute, " ">>
        \o Slice(text, m.start, m.close) \o <<" ", "{">>
        \o Slice(text, m.brace + 1, Len(text))

\* count == 0 after both patterns: RuntimeError
MutationRaises(original_content, func_name) ==
    /\ ~pattern_template(original_content, func_name).found
    /\ ~pattern_regular(original_content, func_name).found

\* a variant that returns the text unmodified where the code raises
modify_without_raise(original_content, func_name, attribute) ==
    LET t == pattern_template(original_content, func_name)
        r == pattern_regular(original_content, func_name)
    IN  IF t.found
        THEN [raised |-> FALSE,
              text |-> replacement_template(original_content, t, attribute)]
        ELSE IF r.found
        THEN [raised |-> FALSE,
              text |-> replacement_regular(original_content, r, attribute)]
        ELSE [raised |-> FALSE, text |-> original_content]

\* a variant whose patterns take the attribute into account: it finds nothing
\* to alter for always_inline
modify_noinline_only(original_content, func_name, attribute) ==
    IF attribute = ALWAYS_INLINE \/ MutationRaises(original_content, func_name)
    THEN [raised |-> TRUE, text |-> << >>]
    ELSE modify_without_raise(original_content, func_name, attribute)

\* modify_source_for_function: [raised |-> TRUE] for the RuntimeError of line
\* 77, else the new content
modify_source_for_function(original_content, func_name, attribute) ==
    LET t == pattern_template(original_content, func_name)
        r == pattern_regular(original_content, func_name)
    IN  IF MutationRaises(original_content, func_name)
        THEN [raised |-> TRUE, text |-> << >>]
        ELSE IF t.found
        THEN [raised |-> FALSE,
              text |-> replacement_template(original_content, t, attribute)]
        ELSE [raised |-> FALSE,
              text |-> replacement_regular(original_content, r, attribute)]

\* ------------------------------------------------------ generated sources
\* The functions a source file may declare: the names TARGETS lists for it.
Def(n) == <<"void", " ", n, "(", ")", " ", "{", "}">>
TemplDef(n) == <<"template<", ">", " ", "int", " ", n, "(", ")", "{", "}">>
Proto(n) == <<"void", " ", n, "(", ")", ";">>
Call(n) == <<n, "(", ")", ";">>

Chunks(names) == UNION {{Def(n), TemplDef(n), Proto(n), Call(n)} : n \in names}

RECURSIVE Flatten(_)
Flatten(cs) == IF cs = << >> THEN << >> ELSE Head(cs) \o Flatten(Tail(cs))

\* every text of at most k chunks over the names
SourceTexts(names, k) ==
    {Flatten(cs) : cs \in UNION {[1..n -> Chunks(names)] : n \in 0..k}}

\* ------------------------------------------------------ experiment driver
\* generate_data.TARGETS, in the dict's order
TARGETS ==
    << [file_name |-> "templates.cpp",
        functions |-> <<"process_value", "standalone_function">>],
       [file_name |-> "call_intensive.cpp",
        functions |-> <<"simple_increment", "process_data_grid">>] >>

TargetIds == {<<i, j>> : i \in 1..Len(TARGETS), j \in 1..2} \cap
             {t \in (1..Len(TARGETS)) \X (1..2) : t[2] <= Len(TARGETS[t[1]].functions)}

\* the contents a source file of the manifest may hold: nothing, both of its
\* functions defined (plain or template), either of them missing, one defined
\* after its own prototype, one defined twice
CorpusTexts(functions) ==
    LET a == functions[1]
        b == functions[2]
    IN  { << >>,
          Def(a) \o Def(b),
          TemplDef(a) \o Def(b),
          Call(a) \o Def(b),
          Def(a) \o Call(b),
          Proto(a) \o Def(a) \o Def(b),
          Def(a) \o TemplDef(b) \o Def(b) }

\* Python's None, and a local that no statement has assigned yet; both are kept
\* apart from every size, which is >= 0
None == -1
Unset == -2
\* no content: the file does not exist, the local is not assigned
Absent == <<"(absent)">>

Sizes == 0..MaxSize

\* what one toolchain invocation that ends does: its exit status, and the size
\* of the file at output_path afterwards.  A failed run leaves no file (None)
\* or the object of an earlier run of the script.
ToolchainRuns ==
    {[exit |-> 0, object_size |-> s] : s \in Sizes}
        \cup {[exit |-> 1, object_size |-> s] : s \in {None, MaxSize}}

\* a variant that measures output_path whatever the exit status (check=False)
compile_unchecked(run) == run.object_size

\* compile_and_get_size once subprocess.run has returned or raised
\* CalledProcessError: the object's size on exit 0, None otherwise
compile_and_get_size(run) ==
    IF run.exit = 0 THEN run.object_size ELSE None

RECURSIVE Gcd(_, _)
Gcd(a, b) == IF b = 0 THEN a ELSE Gcd(b, a % b)

Abs(x) == IF x < 0 THEN -x ELSE x

\* the number n/d (d > 0) in lowest terms
Ratio(n, d) == LET g == Gcd(Abs(n), d) IN <<n \div g, d \div g>>

\* a variant that records the magnitude of the change only
percent_unsigned(size_no_inline, size_always_inline) ==
    Ratio(Abs(size_always_inline - size_no_inline) * 100, size_no_inline)

\* ((size_always_inline - size_no_inline) / size_no_inline) * 100, as the exact
\* number the float approximates
percent_increase(size_no_inline, size_always_inline) ==
    Ratio((size_always_inline - size_no_inline) * 100, size_no_inline)

\* a variant of the guard that does not test size_always_inline
can_calculate_baseline_only(size_no_inline, size_always_inline) ==
    /\ size_no_inline # None
    /\ size_no_inline > 0

\* the guard of "3. Calculate impact", line 121
can_calculate(size_no_inline, size_always_inline) ==
    /\ size_no_inline # None
    /\ size_always_inline # None
    /\ size_no_inline > 0

\* a variant without the except clause: the exception ends main
exception_propagates == "aborted"

\* where "except Exception" of the per-function try leaves the driver
after_exception == "next_func"

\* ---------------------------------------------------- feature extraction
\* A translation unit is the pre-order sequence of its cursors below the root
\* (depth 1 = a child of the root): [kind, spelling, depth, start, end,
\* result_type], the extent as byte offsets, a spelling as a sequence of
\* characters where the code searches it.

\* nodes of a function body per generated translation unit
MaxBodyNodes == 2

Chars(w) ==
    CASE w = "void" -> <<"v", "o", "i", "d">>
      [] w = "Point" -> <<"P", "o", "i", "n", "t">>
      [] w = "Vec" -> <<"V", "e", "c">>
      [] w = "int" -> <<"i", "n", "t">>
      [] w = "float" -> <<"f", "l", "o", "a", "t">>
      [] w = "double" -> <<"d", "o", "u", "b", "l", "e">>
      [] w = "char" -> <<"c", "h", "a", "r">>
      [] w = "bool" -> <<"b", "o", "o", "l">>
      [] w = "short" -> <<"s", "h", "o", "r", "t">>
      [] w = "long" -> <<"l", "o", "n", "g">>

\* Python's "st in return_type" on strings
Contains(s, sub) ==
    \E k \in 0..(Len(s) - Len(sub)) : SubSeq(s, k + 1, k + Len(sub)) = sub

simple_types == <<"void", "int", "float", "double", "char", "bool", "short", "long">>

\* CursorKind.is_statement() on the kinds the model generates
is_statement(kind) ==
    kind \in {"COMPOUND_STMT", "IF_STMT", "FOR_STMT", "WHILE_STMT", "DO_STMT",
              "CXX_FOR_RANGE_STMT", "CASE_STMT", "RETURN_STMT", "DECL_STMT"}

\* the kinds line 71-75 lists
decision_kinds ==
    {"IF_STMT", "FOR_STMT", "WHILE_STMT", "CASE_STMT", "CONDITIONAL_OPERATOR"}

\* cursor.walk_preorder(): the cursor at index i and its descendants
walk_preorder(tu, i) ==
    LET after == {k \in (i + 1)..Len(tu) : tu[k].depth <= tu[i].depth}
        last == IF after = {} THEN Len(tu) ELSE Min(after) - 1
    IN  [k \in 1..(last - i + 1) |-> i + k - 1]

\* cursor.get_children() of the cursor at index i (0: the root), in order
RECURSIVE SelectIdx(_, _, _)
SelectIdx(tu, idxs, d) ==
    IF idxs = << >> THEN << >>
    ELSE IF tu[Head(idxs)].depth = d
         THEN <<Head(idxs)>> \o SelectIdx(tu, Tail(idxs), d)
         ELSE SelectIdx(tu, Tail(idxs), d)

get_children(tu, i) ==
    IF i = 0 THEN SelectIdx(tu, [k \in 1..Len(tu) |-> k], 1)
    ELSE SelectIdx(tu, Tail(walk_preorder(tu, i)), tu[i].depth + 1)

\* line 67: the node's extent lies inside the function's
InExtent(tu, i, k) ==
    tu[i].start <= tu[k].start /\ tu[k].end <= tu[i].end

\* translation_unit.get_tokens(extent=func_cursor.extent): the tokens of the
\* file that lie in the extent of the cursor at index i
get_tokens(tokens, tu, i) ==
    {k \in DOMAIN tokens :
        tu[i].start <= tokens[k].start /\ tokens[k].end <= tu[i].end}

\* line 58: 1 unless the spelling of the result type holds a simple type's name
complex_return(return_type) ==
    IF \E n \in 1..Len(simple_types) :
           Contains(Chars(return_type), Chars(simple_types[n]))
    THEN 0 ELSE 1

\* func_cursor.get_arguments(): clang_Cursor_getNumArguments is -1 for a
\* function template, so nothing is yielded for one
get_arguments(tu, i) ==
    IF tu[i].kind = "FUNCTION_TEMPLATE" THEN {}
    ELSE {k \in 1..Len(get_children(tu, i)) :
            tu[get_children(tu, i)[k]].kind = "PARM_DECL"}

\* the first index of a sequence of indexes whose cursor passes, or 0
RECURSIVE FirstMatch(_, _, _, _)
FirstMatch(tu, idxs, kinds, spelling) ==
    IF idxs = << >> THEN 0
    ELSE IF tu[Head(idxs)].kind \in kinds /\ tu[Head(idxs)].spelling = spelling
         THEN Head(idxs)
         ELSE FirstMatch(tu, Tail(idxs), kinds, spelling)

\* lines 102-108: the classes of that name in order, the first method found
RECURSIVE FirstMethod(_, _, _, _)
FirstMethod(tu, idxs, class_name, method_name) ==
    IF idxs = << >> THEN 0
    ELSE LET c == Head(idxs)
             m == IF tu[c].kind \in {"CLASS_DECL", "STRUCT_DECL"} /\ tu[c].spelling = class_name
                  THEN FirstMatch(tu, get_children(tu, c), {"CXX_METHOD"}, method_name)
                  ELSE 0
         IN  IF m # 0 THEN m ELSE FirstMethod(tu, Tail(idxs), class_name, method_name)

\* a variant that searches every cursor of the translation unit, nested ones
\* included
find_cursor_at_any_depth(tu, target_func_name) ==
    IF Len(target_func_name) >= 2
    THEN FirstMatch(tu, [k \in 1..Len(tu) |-> k], {"CXX_METHOD"}, target_func_name[2])
    ELSE FirstMatch(tu, [k \in 1..Len(tu) |-> k], {"FUNCTION_DECL", "FUNCTION_TEMPLATE"},
                    target_func_name[1])

\* find_function_cursor(tu.cursor, name): the index of the cursor found, 0 for
\* None.  A name is the sequence of its parts around "::".
find_function_cursor(tu, target_func_name) ==
    IF Len(target_func_name) >= 2
    THEN FirstMethod(tu, get_children(tu, 0), target_func_name[1], target_func_name[2])
    ELSE FirstMatch(tu, get_children(tu, 0), {"FUNCTION_DECL", "FUNCTION_TEMPLATE"},
                    target_func_name[1])

\* ---- generated translation units
BodyKinds ==
    {"IF_STMT", "FOR_STMT", "WHILE_STMT", "DO_STMT", "CXX_FOR_RANGE_STMT",
     "CASE_STMT", "CONDITIONAL_OPERATOR", "COMPOUND_STMT", "VAR_DECL",
     "RETURN_STMT", "CALL_EXPR"}

\* a body node, inside the function's extent or (an if statement expanded from
\* a macro defined above the function) outside it
BodyItems ==
    {[kind |-> k, outside |-> FALSE] : k \in BodyKinds}
        \cup {[kind |-> "IF_STMT", outside |-> TRUE]}

Bodies == UNION {[1..n -> BodyItems] : n \in 0..MaxBodyNodes}

Node(kind, spelling, depth, start, end, rtype) ==
    [kind |-> kind, spelling |-> spelling, depth |-> depth, start |-> start,
     end |-> end, result_type |-> rtype]

\* a function-like declaration at byte offset base: its cursor, one parameter,
\* the block of its body and the body's nodes
Function(kind, spelling, rtype, body, depth, base) ==
    <<Node(kind, spelling, depth, base, base + 90, rtype),
      Node("PARM_DECL", "x", depth + 1, base + 2, base + 3, "int"),
      Node("COMPOUND_STMT", "", depth + 1, base + 5, base + 90, "")>>
    \o [k \in 1..Len(body) |->
          IF body[k].outside
          THEN Node(body[k].kind, "", depth + 2, 1, 2, "")
          ELSE Node(body[k].kind, "", depth + 2, base + 10 * k, base + 10 * k + 5, "")]

Container(kind, spelling, depth, base, members) ==
    <<Node(kind, spelling, depth, base, base + 95, "")>> \o members

FixedBody == <<[kind |-> "IF_STMT", outside |-> FALSE]>>

TranslationUnits ==
    UNION {
      { Function("FUNCTION_DECL", "f", "void", b, 1, 100),
        Function("FUNCTION_TEMPLATE", "f", "Vec", b, 1, 100),
        Function("FUNCTION_DECL", "g", "void", FixedBody, 1, 100)
            \o Function("FUNCTION_DECL", "f", "Point", b, 1, 200),
        Function("FUNCTION_DECL", "f", "void", b, 1, 100)
            \o Function("FUNCTION_DECL", "f", "void", FixedBody, 1, 200),
        Container("NAMESPACE", "ns", 1, 100, Function("FUNCTION_DECL", "f", "void", b, 2, 102)),
        Container("CLASS_DECL", "C", 1, 100, Function("CXX_METHOD", "m", "void", b, 2, 102))
            \o Function("FUNCTION_DECL", "m", "void", FixedBody, 1, 200),
        Container("CLASS_DECL", "C", 1, 100, << >>)
            \o Container("STRUCT_DECL", "C", 1, 200,
                         Function("CXX_METHOD", "m", "void", b, 2, 202)
                             \o Function("CXX_METHOD", "m", "void", FixedBody, 2, 302))
      } : b \in Bodies }

\* a lexical token of the file, by the byte offsets of its extent
Token(start, end) == [start |-> start, end |-> end]

\* the tokens of a parsed file: all of them inside the first function, or
\* spread before, inside, between and after the declarations
TokenStreams ==
    { <<Token(100, 104), Token(105, 106), Token(189, 190)>>,
      <<Token(50, 53), Token(102, 104), Token(150, 152), Token(191, 192),
        Token(200, 204), Token(250, 251), Token(302, 303)>> }

\* the target names of a manifest: a plain name, a Class::method name
TargetNames == {<<"f">>, <<"C", "m">>}

\* what target_functions.json may hold: one generated file and its targets
Manifests ==
    {<<[file_name |-> "gen_0.cpp", functions |-> fs]>> :
        fs \in UNION {[1..n -> TargetNames] : n \in 1..2}}

\* ------------------------------------------------------------ state
VARIABLES
    compiler_on_path,    \* environment: COMPILER can be executed
    pc,                  \* the driver's position in main
    fi,                  \* index into TARGETS of the file being processed
    fj,                  \* index into its functions
    original_content,    \* main's local
    temp_source,         \* content of TEMP_BUILD_DIR/temp_code.cpp
    size_no_inline,      \* main's local
    size_always_inline,  \* main's local
    toolchain,           \* the last toolchain invocation
    results,             \* main's list
    output_csv,          \* rows of OUTPUT_CSV
    tstate,              \* history: each target's state
    probed               \* history: what the two probes of each target returned

drv_vars == <<compiler_on_path, pc, fi, fj, original_content, temp_source,
              size_no_inline, size_always_inline, toolchain, results,
              output_csv, tstate, probed>>

VARIABLES
    manifest_exists,     \* environment: TARGET_CONFIG_PATH exists
    libclang_found,      \* environment: Index.create() finds libclang
    ex_pc,               \* the extractor's position in main
    target_data,         \* main's local
    ei,                  \* index of the file being processed
    ej,                  \* index into its functions
    tu,                  \* main's local: the cursors of the translation unit
    tu_tokens,           \* the tokens of the translation unit
    cursor,              \* main's local: index into tu, 0 for None
    all_features,        \* main's list
    features_csv,        \* rows of OUTPUT_CSV, Absent before it is written
    \* the locals of get_features, each holding what was last assigned to it
    complexity,
    body_stmts,
    local_vars,
    token_count,
    is_complex_return,
    parameter_count,
    node                 \* position of the for loop in func_cursor.walk_preorder()

frame_vars == <<complexity, body_stmts, local_vars, token_count,
                is_complex_return, parameter_count, node>>

ext_vars == <<manifest_exists, libclang_found, ex_pc, target_data, ei, ej, tu,
              tu_tokens, cursor, all_features, features_csv, frame_vars>>

VARIABLES
    mut_source,          \* modify_source_for_function's original_content
    mut_name,            \* its func_name
    mut_attribute,       \* its attribute
    mut_pc,              \* "call" before the call, "returned" after it
    mut_result           \* what the call gave

mut_vars == <<mut_source, mut_name, mut_attribute, mut_pc, mut_result>>

vars == <<drv_vars, ext_vars, mut_vars>>

func == TARGETS[fi].functions[fj]
filename == TARGETS[fi].file_name
cur == <<fi, fj>>

\* the variables of a script that is not run
DrvIdle ==
    /\ compiler_on_path = FALSE
    /\ pc = "idle"
    /\ fi = 1
    /\ fj = 1
    /\ original_content = Absent
    /\ temp_source = Absent
    /\ size_no_inline = Unset
    /\ size_always_inline = Unset
    /\ toolchain = [exit |-> Unset, object_size |-> None]
    /\ results = << >>
    /\ output_csv = << >>
    /\ tstate = [t \in TargetIds |-> "PENDING"]
    /\ probed = [t \in TargetIds |-> "none"]

ExtIdle ==
    /\ manifest_exists = FALSE
    /\ libclang_found = FALSE
    /\ ex_pc = "idle"
    /\ target_data = << >>
    /\ ei = 1
    /\ ej = 1
    /\ tu = << >>
    /\ tu_tokens = << >>
    /\ cursor = 0
    /\ all_features = << >>
    /\ features_csv = << >>
    /\ complexity = Unset
    /\ body_stmts = Unset
    /\ local_vars = Unset
    /\ token_count = Unset
    /\ is_complex_return = Unset
    /\ parameter_count = Unset
    /\ node = Unset

MutIdle ==
    /\ mut_source = << >>
    /\ mut_name = ""
    /\ mut_attribute = ""
    /\ mut_pc = "idle"
    /\ mut_result = [raised |-> FALSE, text |-> << >>]

Init ==
    /\ compiler_on_path \in BOOLEAN
    /\ pc = "open_source"
    /\ fi = 1
    /\ fj = 1
    /\ original_content = Absent
    /\ temp_source = Absent
    /\ size_no_inline = Unset
    /\ size_always_inline = Unset
    /\ toolchain = [exit |-> Unset, object_size |-> None]
    /\ results = << >>
    /\ output_csv = << >>
    /\ tstate = [t \in TargetIds |-> "PENDING"]
    /\ probed = [t \in TargetIds |-> "none"]
    /\ ExtIdle
    /\ MutIdle

\* the head of "for filename, functions in TARGETS.items()" after file i
NextFilePc(i) == IF i < Len(TARGETS) THEN "open_source" ELSE "write_csv"

\* lines 89-98: the source file is missing, "continue"
SourceMissing ==
    /\ UNCHANGED <<ext_vars, mut_vars>>
    /\ pc = "open_source"
    /\ pc' = NextFilePc(fi)
    /\ fi' = IF fi < Len(TARGETS) THEN fi + 1 ELSE fi
    /\ fj' = 1
    /\ tstate' = [t \in TargetIds |-> IF t[1] = fi THEN "NOT_FOUND" ELSE tstate[t]]
    /\ UNCHANGED <<compiler_on_path, original_content, temp_source, size_no_inline,
                   size_always_inline, toolchain, results, output_csv, probed>>

\* lines 89-95 and the head of "for func in functions"
OpenSource ==
    /\ UNCHANGED <<ext_vars, mut_vars>>
    /\ pc = "open_source"
    /\ \E content \in CorpusTexts(TARGETS[fi].functions) :
          original_content' = content
    /\ fj' = 1
    /\ pc' = "mutate_noinline"
    /\ UNCHANGED <<compiler_on_path, fi, temp_source, size_no_inline,
                   size_always_inline, toolchain, results, output_csv, tstate, probed>>

\* lines 106-108: the no-inline variant is written to the scratch file, or the
\* RuntimeError reaches line 133
MutateNoInline ==
    /\ UNCHANGED <<ext_vars, mut_vars>>
    /\ pc = "mutate_noinline"
    /\ LET modified_noinline == modify_source_for_function(original_content, func, NOINLINE)
       IN  IF modified_noinline.raised
           THEN /\ pc' = after_exception
                /\ tstate' = [tstate EXCEPT ![cur] = "MUTATION_FAILED"]
                /\ UNCHANGED temp_source
           ELSE /\ pc' = "compile_noinline"
                /\ tstate' = [tstate EXCEPT ![cur] = "MUTATED"]
                /\ temp_source' = modified_noinline.text
    /\ UNCHANGED <<compiler_on_path, fi, fj, original_content, size_no_inline,
                   size_always_inline, toolchain, results, output_csv, probed>>

\* lines 109-110 with lines 37-48: the toolchain ends
CompileNoInline ==
    /\ UNCHANGED <<ext_vars, mut_vars>>
    /\ pc = "compile_noinline"
    /\ compiler_on_path
    /\ \E run \in ToolchainRuns :
          /\ toolchain' = run
          /\ size_no_inline' = compile_and_get_size(run)
    /\ pc' = "mutate_always_inline"
    /\ tstate' = [tstate EXCEPT ![cur] = "BASELINE_PROBED"]
    /\ UNCHANGED <<compiler_on_path, fi, fj, original_content, temp_source,
                   size_always_inline, results, output_csv, probed>>

\* lines 38-43: no timeout is passed to subprocess.run; a toolchain that does
\* not end keeps the driver waiting
WaitNoInline ==
    /\ UNCHANGED <<ext_vars, mut_vars>>
    /\ pc = "compile_noinline"
    /\ compiler_on_path
    /\ pc' = "wait_noinline"
    /\ UNCHANGED <<compiler_on_path, fi, fj, original_content, temp_source,
                   size_no_inline, size_always_inline, toolchain, results,
                   output_csv, tstate, probed>>

\* lines 38-43: COMPILER is not on the path, subprocess.run raises
\* FileNotFoundError, which only line 133 catches
CompileNoInlineRaises ==
    /\ UNCHANGED <<ext_vars, mut_vars>>
    /\ pc = "compile_noinline"
    /\ ~compiler_on_path
    /\ pc' = after_exception
    /\ tstate' = [tstate EXCEPT ![cur] = "PROBE_FAILED"]
    /\ UNCHANGED <<compiler_on_path, fi, fj, original_content, temp_source,
                   size_no_inline, size_always_inline, toolchain, results,
                   output_csv, probed>>

\* a variant that does not write the always-inline variant to the scratch
\* file: the forced probe compiles what the baseline probe left there
MutateAlwaysInlineNoWrite ==
    /\ UNCHANGED <<ext_vars, mut_vars>>
    /\ pc = "mutate_always_inline"
    /\ pc' = "compile_always_inline"
    /\ UNCHANGED <<compiler_on_path, fi, fj, original_content, temp_source,
                   size_no_inline, size_always_inline, toolchain, results,
                   output_csv, tstate, probed>>

\* lines 113-116
MutateAlwaysInline ==
    /\ UNCHANGED <<ext_vars, mut_vars>>
    /\ pc = "mutate_always_inline"
    /\ LET modified_always_inline == modify_source_for_function(original_content, func, ALWAYS_INLINE)
       IN  IF modified_always_inline.raised
           THEN /\ pc' = after_exception
                /\ tstate' = [tstate EXCEPT ![cur] = "MUTATION_FAILED"]
                /\ UNCHANGED temp_source
           ELSE /\ pc' = "compile_always_inline"
                /\ temp_source' = modified_always_inline.text
                /\ UNCHANGED tstate
    /\ UNCHANGED <<compiler_on_path, fi, fj, original_content, size_no_inline,
                   size_always_inline, toolchain, results, output_csv, probed>>

\* what the two probes of a target returned
ProbeClass(b, f) ==
    IF b = None \/ f = None THEN "absent"
    ELSE IF b = 0 THEN "zero_baseline"
    ELSE "sized"

\* lines 117-118 with lines 37-48
CompileAlwaysInline ==
    /\ UNCHANGED <<ext_vars, mut_vars>>
    /\ pc = "compile_always_inline"
    /\ compiler_on_path
    /\ \E run \in ToolchainRuns :
          /\ toolchain' = run
          /\ size_always_inline' = compile_and_get_size(run)
          /\ probed' = [probed EXCEPT ![cur] =
                           ProbeClass(IF toolchain.exit = 0 THEN toolchain.object_size ELSE None,
                                      IF run.exit = 0 THEN run.object_size ELSE None)]
    /\ pc' = "calc"
    /\ tstate' = [tstate EXCEPT ![cur] = "FORCED_PROBED"]
    /\ UNCHANGED <<compiler_on_path, fi, fj, original_content, temp_source,
                   size_no_inline, results, output_csv>>

WaitAlwaysInline ==
    /\ UNCHANGED <<ext_vars, mut_vars>>
    /\ pc = "compile_always_inline"
    /\ compiler_on_path
    /\ pc' = "wait_always_inline"
    /\ UNCHANGED <<compiler_on_path, fi, fj, original_content, temp_source,
                   size_no_inline, size_always_inline, toolchain, results,
                   output_csv, tstate, probed>>

\* the always-inline probe is never reached without a compiler: the no-inline
\* probe of the same target has raised before it

\* lines 120-131
CalculateImpact ==
    /\ UNCHANGED <<ext_vars, mut_vars>>
    /\ pc = "calc"
    /\ IF can_calculate(size_no_inline, size_always_inline)
       THEN /\ results' = Append(results,
                   [function_name |-> func, file_name |-> filename,
                    size_increase_percent |->
                        percent_increase(size_no_inline, size_always_inline)])
            /\ tstate' = [tstate EXCEPT ![cur] = "RECORDED"]
       ELSE /\ UNCHANGED results
            /\ tstate' = [tstate EXCEPT ![cur] = "SKIPPED"]
    /\ pc' = "next_func"
    /\ UNCHANGED <<compiler_on_path, fi, fj, original_content, temp_source,
                   size_no_inline, size_always_inline, toolchain, output_csv, probed>>

\* the heads of the two for loops after a function's body
NextFunc ==
    /\ UNCHANGED <<ext_vars, mut_vars>>
    /\ pc = "next_func"
    /\ IF fj < Len(TARGETS[fi].functions)
       THEN /\ fj' = fj + 1
            /\ pc' = "mutate_noinline"
            /\ UNCHANGED fi
       ELSE /\ fj' = 1
            /\ fi' = IF fi < Len(TARGETS) THEN fi + 1 ELSE fi
            /\ pc' = NextFilePc(fi)
    /\ UNCHANGED <<compiler_on_path, original_content, temp_source, size_no_inline,
                   size_always_inline, toolchain, results, output_csv, tstate, probed>>

\* lines 136-145
WriteCsv ==
    /\ UNCHANGED <<ext_vars, mut_vars>>
    /\ pc = "write_csv"
    /\ output_csv' = IF results # << >> THEN results ELSE output_csv
    /\ pc' = "cleanup"
    /\ UNCHANGED <<compiler_on_path, fi, fj, original_content, temp_source,
                   size_no_inline, size_always_inline, toolchain, results,
                   tstate, probed>>

\* lines 147-151
CleanUp ==
    /\ UNCHANGED <<ext_vars, mut_vars>>
    /\ pc = "cleanup"
    /\ temp_source' = Absent
    /\ pc' = "done"
    /\ UNCHANGED <<compiler_on_path, fi, fj, original_content, size_no_inline,
                   size_always_inline, toolchain, results, output_csv, tstate, probed>>

\* ------------------------------------------- extract_features.main
ExtInit ==
    /\ manifest_exists \in BOOLEAN
    /\ libclang_found \in BOOLEAN
    /\ ex_pc = "check_manifest"
    /\ target_data = << >>
    /\ ei = 1
    /\ ej = 1
    /\ tu = << >>
    /\ tu_tokens = << >>
    /\ cursor = 0
    /\ all_features = << >>
    /\ features_csv = << >>
    /\ complexity = Unset
    /\ body_stmts = Unset
    /\ local_vars = Unset
    /\ token_count = Unset
    /\ is_complex_return = Unset
    /\ parameter_count = Unset
    /\ node = Unset
    /\ DrvIdle
    /\ MutIdle

\* lines 120-122
ManifestMissing ==
    /\ UNCHANGED <<drv_vars, mut_vars>>
    /\ ex_pc = "check_manifest"
    /\ ~manifest_exists
    /\ ex_pc' = "returned"
    /\ UNCHANGED <<manifest_exists, libclang_found, target_data, ei, ej, tu,
                   cursor, all_features, features_csv, tu_tokens,
                   frame_vars>>

\* lines 120-125
LoadManifest ==
    /\ UNCHANGED <<drv_vars, mut_vars>>
    /\ ex_pc = "check_manifest"
    /\ manifest_exists
    /\ target_data' \in Manifests
    /\ ex_pc' = "create_index"
    /\ UNCHANGED <<manifest_exists, libclang_found, ei, ej, tu, cursor,
                   all_features, features_csv, tu_tokens,
                   frame_vars>>

\* lines 127-131
CreateIndex ==
    /\ UNCHANGED <<drv_vars, mut_vars>>
    /\ ex_pc = "create_index"
    /\ ex_pc' = IF libclang_found THEN "for_file" ELSE "returned"
    /\ UNCHANGED <<manifest_exists, libclang_found, target_data, ei, ej, tu,
                   cursor, all_features, features_csv, tu_tokens,
                   frame_vars>>

\* line 137 once every file is done
FilesDone ==
    /\ UNCHANGED <<drv_vars, mut_vars>>
    /\ ex_pc = "for_file"
    /\ ei > Len(target_data)
    /\ ex_pc' = "write_csv"
    /\ UNCHANGED <<manifest_exists, libclang_found, target_data, ei, ej, tu,
                   cursor, all_features, features_csv, tu_tokens,
                   frame_vars>>

\* lines 137-139: the generated source is missing, "continue"
GeneratedMissing ==
    /\ UNCHANGED <<drv_vars, mut_vars>>
    /\ ex_pc = "for_file"
    /\ ei <= Len(target_data)
    /\ ei' = ei + 1
    /\ UNCHANGED <<manifest_exists, libclang_found, ex_pc, target_data, ej, tu,
                   cursor, all_features, features_csv, tu_tokens,
                   frame_vars>>

\* lines 137-141
ParseSource ==
    /\ UNCHANGED <<drv_vars, mut_vars>>
    /\ ex_pc = "for_file"
    /\ ei <= Len(target_data)
    /\ tu' \in TranslationUnits
    /\ tu_tokens' \in TokenStreams
    /\ ej' = 1
    /\ ex_pc' = "find"
    /\ UNCHANGED <<manifest_exists, libclang_found, target_data, ei, cursor,
                   all_features, features_csv, frame_vars>>

\* lines 143-145, and 152 once every function of the file is done
FindCursor ==
    /\ UNCHANGED <<drv_vars, mut_vars>>
    /\ ex_pc = "find"
    /\ IF ej > Len(target_data[ei].functions)
       THEN /\ ei' = ei + 1
            /\ ex_pc' = "for_file"
            /\ UNCHANGED <<ej, cursor>>
       ELSE LET c == find_function_cursor(tu, target_data[ei].functions[ej])
            IN  /\ cursor' = c
                /\ ex_pc' = IF c # 0 THEN "features" ELSE "find"
                /\ ej' = IF c # 0 THEN ej ELSE ej + 1
                /\ UNCHANGED ei
    /\ UNCHANGED <<manifest_exists, libclang_found, target_data, tu,
                   all_features, features_csv, tu_tokens,
                   frame_vars>>

\* a variant that does not assign the counters on entry: they go on from the
\* values the call before left
CallGetFeaturesKeepingCounters ==
    /\ UNCHANGED <<drv_vars, mut_vars>>
    /\ ex_pc = "features"
    /\ token_count' = Cardinality(get_tokens(tu_tokens, tu, cursor))
    /\ is_complex_return' = complex_return(tu[cursor].result_type)
    /\ parameter_count' = Cardinality(get_arguments(tu, cursor))
    /\ node' = 1
    /\ ex_pc' = "walk"
    /\ UNCHANGED <<manifest_exists, libclang_found, target_data, ei, ej, tu,
                   tu_tokens, cursor, all_features, features_csv,
                   complexity, body_stmts, local_vars>>

\* lines 147 and 45-64: get_features is entered, its locals are assigned
CallGetFeatures ==
    /\ UNCHANGED <<drv_vars, mut_vars>>
    /\ ex_pc = "features"
    /\ complexity' = 1
    /\ body_stmts' = 0
    /\ local_vars' = 0
    /\ token_count' = Cardinality(get_tokens(tu_tokens, tu, cursor))
    /\ is_complex_return' = complex_return(tu[cursor].result_type)
    /\ parameter_count' = Cardinality(get_arguments(tu, cursor))
    /\ node' = 1
    /\ ex_pc' = "walk"
    /\ UNCHANGED <<manifest_exists, libclang_found, target_data, ei, ej, tu,
                   tu_tokens, cursor, all_features, features_csv>>

\* lines 66-84: one pass of "for node in func_cursor.walk_preorder()"
VisitNode ==
    /\ UNCHANGED <<drv_vars, mut_vars>>
    /\ ex_pc = "walk"
    /\ node <= Len(walk_preorder(tu, cursor))
    /\ LET n == walk_preorder(tu, cursor)[node]
       IN  IF ~InExtent(tu, cursor, n)
           THEN UNCHANGED <<complexity, body_stmts, local_vars>>
           ELSE /\ complexity' = IF tu[n].kind \in decision_kinds
                                 THEN complexity + 1 ELSE complexity
                /\ local_vars' = IF tu[n].kind = "VAR_DECL"
                                 THEN local_vars + 1 ELSE local_vars
                /\ body_stmts' = IF is_statement(tu[n].kind) /\ tu[n].kind # "COMPOUND_STMT"
                                 THEN body_stmts + 1 ELSE body_stmts
    /\ node' = node + 1
    /\ UNCHANGED <<manifest_exists, libclang_found, ex_pc, target_data, ei, ej, tu,
                   tu_tokens, cursor, all_features, features_csv, token_count,
                   is_complex_return, parameter_count>>

\* lines 86-93 and 148-150: the loop is over, the row is built and appended
ReturnFeatures ==
    /\ UNCHANGED <<drv_vars, mut_vars>>
    /\ ex_pc = "walk"
    /\ node > Len(walk_preorder(tu, cursor))
    /\ all_features' = Append(all_features,
           [features |->
                [cyclomatic_complexity |-> complexity,
                 parameter_count |-> parameter_count,
                 local_variable_count |-> local_vars,
                 body_size_stmts |-> body_stmts,
                 token_count |-> token_count,
                 is_complex_return |-> is_complex_return],
            function_name |-> target_data[ei].functions[ej],
            file_name |-> target_data[ei].file_name])
    /\ ej' = ej + 1
    /\ ex_pc' = "find"
    /\ UNCHANGED <<manifest_exists, libclang_found, target_data, ei, tu,
                   tu_tokens, cursor, features_csv, frame_vars>>

\* lines 155-167
WriteFeatures ==
    /\ UNCHANGED <<drv_vars, mut_vars>>
    /\ ex_pc = "write_csv"
    /\ features_csv' = all_features
    /\ ex_pc' = "returned"
    /\ UNCHANGED <<manifest_exists, libclang_found, target_data, ei, ej, tu,
                   cursor, all_features, tu_tokens,
                   frame_vars>>

ExtNext ==
    \/ ManifestMissing
    \/ LoadManifest
    \/ CreateIndex
    \/ FilesDone
    \/ GeneratedMissing
    \/ ParseSource
    \/ FindCursor
    \/ CallGetFeatures
    \/ VisitNode
    \/ ReturnFeatures
    \/ WriteFeatures

Next ==
    \/ SourceMissing
    \/ OpenSource
    \/ MutateNoInline
    \/ CompileNoInline
    \/ WaitNoInline
    \/ CompileNoInlineRaises
    \/ MutateAlwaysInline
    \/ CompileAlwaysInline
    \/ WaitAlwaysInline
    \/ CalculateImpact
    \/ NextFunc
    \/ WriteCsv
    \/ CleanUp

\* ------------------------------- modify_source_for_function on its own
MutNames == {TARGETS[1].functions[1], TARGETS[1].functions[2]}

MutInit ==
    /\ mut_source \in SourceTexts(MutNames, MaxChunks)
    /\ mut_name \in MutNames
    /\ mut_attribute \in Attributes
    /\ mut_pc = "call"
    /\ mut_result = [raised |-> FALSE, text |-> << >>]
    /\ DrvIdle
    /\ ExtIdle

\* lines 51-78
Modify ==
    /\ mut_pc = "call"
    /\ mut_result' = modify_source_for_function(mut_source, mut_name, mut_attribute)
    /\ mut_pc' = "returned"
    /\ UNCHANGED <<mut_source, mut_name, mut_attribute, drv_vars, ext_vars>>

MutNext == Modify

\* generate_data.py run as a script
Spec == Init /\ [][Next]_vars

\* the interpreter keeps running main while it has a step to take
FairSpec == Spec /\ WF_vars(Next)

\* extract_features.py run as a script
ExtractSpec == ExtInit /\ [][ExtNext]_vars

\* modify_source_for_function called on generated sources
MutSpec == MutInit /\ [][MutNext]_vars

\* ------------------------------------------------------------------ claims
FuncOf(t) == TARGETS[t[1]].functions[t[2]]
FileOf(t) == TARGETS[t[1]].file_name

\* a target's terminal states: recorded, or skipped for one of four reasons
Terminal(t) ==
    tstate[t] \in {"RECORDED", "SKIPPED", "NOT_FOUND", "MUTATION_FAILED", "PROBE_FAILED"}

\* the loops are past target t: the current (filename, func) comes later in
\* the iteration, or both loops are over
Past(t) ==
    \/ pc \in {"write_csv", "cleanup", "done"}
    \/ fi > t[1]
    \/ (fi = t[1] /\ fj > t[2])

\* subprocess.run is waiting for a toolchain that does not end
ToolchainNeverEnds == pc \in {"wait_noinline", "wait_always_inline"}

\* C1: whatever the outcomes of the targets (source file missing, mutation
\* raises, a compile fails, baseline size zero), no failure of a target aborts
\* the run or keeps a later target from being processed: every run of main in
\* which each toolchain invocation ends reaches the end of main with every
\* target of the manifest in a terminal state.
C1_EveryTargetReachesTerminal ==
    <>(ToolchainNeverEnds \/ (pc = "done" /\ \A t \in TargetIds : Terminal(t)))

\* a run that ended although one target's mutation failed, and that recorded a
\* later target
C1_Witness ==
    /\ pc = "done"
    /\ tstate[<<1, 1>>] = "MUTATION_FAILED"
    /\ tstate[<<1, 2>>] = "RECORDED"
    /\ tstate[<<2, 1>>] = "NOT_FOUND"

RecordsFor(t) ==
    {k \in 1..Len(results) :
        results[k].function_name = FuncOf(t) /\ results[k].file_name = FileOf(t)}

\* C2: the result list holds at most one record per target; a processed
\* (terminal) target has a record exactly when both of its probes returned a
\* size and the baseline size was > 0; a target not yet terminal has none; the
\* list holds nothing else.
C2_RecordIffBothSized ==
    /\ \A t \in TargetIds :
          /\ Cardinality(RecordsFor(t)) <= 1
          /\ Terminal(t) => (RecordsFor(t) # {} <=> probed[t] = "sized")
          /\ ~Terminal(t) => RecordsFor(t) = {}
    /\ Len(results) = Cardinality({t \in TargetIds : RecordsFor(t) # {}})

\* one target recorded, one skipped for a zero baseline, one for an absent size
C2_Witness ==
    /\ tstate[<<1, 1>>] = "RECORDED"
    /\ tstate[<<1, 2>>] = "SKIPPED" /\ probed[<<1, 2>>] = "zero_baseline"
    /\ tstate[<<2, 1>>] = "SKIPPED" /\ probed[<<2, 1>>] = "absent"
    /\ Len(results) = 1

NoPatternMatches(text, name) ==
    ~pattern_template(text, name).found /\ ~pattern_regular(text, name).found

\* C3: when neither pattern matches the function name, modify_source_for_function
\* raises and the driver skips the target without compiling anything for it:
\* whenever the driver is about to compile or is compiling, a pattern matches
\* the current function and the scratch file differs from the unmodified
\* source; a target for which nothing matches ends as MUTATION_FAILED with
\* no probe run.
C3_NoMatchRaises ==
    /\ pc \in {"compile_noinline", "wait_noinline", "compile_always_inline",
               "wait_always_inline"}
          => /\ ~NoPatternMatches(original_content, func)
             /\ temp_source # original_content
    /\ (pc = "next_func" /\ NoPatternMatches(original_content, func))
          => /\ tstate[cur] = "MUTATION_FAILED"
             /\ probed[cur] = "none"
             /\ RecordsFor(cur) = {}

\* the second function of a file is absent from the source: its mutation
\* raised after the first function's variants had been compiled
C3_Witness ==
    /\ pc = "next_func"
    /\ fj = 2
    /\ NoPatternMatches(original_content, func)
    /\ tstate[cur] = "MUTATION_FAILED"
    /\ tstate[<<fi, 1>>] = "RECORDED"
    /\ temp_source # Absent

\* the places of the text where pattern_regular matches the function name: the
\* occurrences the mutation could alter
Occurrences(text, name) ==
    {p \in 1..Len(text) : SigCloses(text, name, p) # {}}

\* C4: modify_source_for_function reports an error exactly when the source
\* does not hold exactly one occurrence matching the target: with none, and
\* with more than one, the call raises.
C4_ErrorUnlessExactlyOne ==
    mut_pc = "returned" =>
        (mut_result.raised <=> Cardinality(Occurrences(mut_source, mut_name)) # 1)

\* C5: compile_and_get_size returns None whenever the toolchain exits with a
\* non-zero status and nothing reaches the caller's except clause; a size is
\* returned only after exit status zero, and it is the object file's size.
C5_NoneOnNonZeroExit ==
    /\ pc = "mutate_always_inline" =>
          /\ toolchain.exit # 0 => size_no_inline = None
          /\ size_no_inline # None =>
                toolchain.exit = 0 /\ size_no_inline = toolchain.object_size
          /\ tstate[cur] = "BASELINE_PROBED"
    /\ pc = "calc" =>
          /\ toolchain.exit # 0 => size_always_inline = None
          /\ size_always_inline # None =>
                toolchain.exit = 0 /\ size_always_inline = toolchain.object_size
          /\ tstate[cur] = "FORCED_PROBED"
    /\ \A t \in TargetIds : tstate[t] = "PROBE_FAILED" => ~compiler_on_path

\* the toolchain failed and left the object file of an earlier run behind:
\* the probe returned None
C5_Witness ==
    /\ pc = "mutate_always_inline"
    /\ toolchain.exit = 1
    /\ toolchain.object_size = MaxSize
    /\ size_no_inline = None

\* C6: a probe whose toolchain does not finish is ended by a timeout and the
\* driver goes on to the next target.
C6_TimeoutEndsProbe ==
    ToolchainNeverEnds ~> (pc = "next_func" /\ tstate[cur] = "SKIPPED")

\* C7: between two targets, the impact dataset holds exactly the records of
\* the targets recorded so far.
C7_RecordsPersistedBetweenTargets ==
    pc = "next_func" => output_csv = results

\* C8: no target is mutated and then skipped because the toolchain was found
\* unavailable: without a toolchain the run ends before any target.
C8_AbortBeforeAnyTarget ==
    ~compiler_on_path =>
        \A t \in TargetIds : tstate[t] \notin {"MUTATED", "PROBE_FAILED"}

\* C9: a recorded target with baseline size b > 0 and forced size f has
\* size_increase_percent = (f - b) / b * 100: negative exactly when f < b, zero
\* exactly when f = b; and two sizes with f < b are recorded, not rejected.
C9_PercentOfBaseline ==
    /\ (pc = "next_func" /\ tstate[cur] = "RECORDED") =>
          LET percent == results[Len(results)].size_increase_percent
              b == size_no_inline
              f == size_always_inline
          IN  /\ b > 0
              /\ percent[2] > 0
              /\ percent[1] * b = (f - b) * 100 * percent[2]
              /\ percent[1] < 0 <=> f < b
              /\ percent[1] = 0 <=> f = b
    /\ (pc = "next_func" /\ probed[cur] = "sized"
            /\ size_always_inline < size_no_inline) =>
          tstate[cur] = "RECORDED"

\* forced inlining shrank the object: -50 percent is recorded
C9_Witness ==
    /\ pc = "next_func"
    /\ tstate[cur] = "RECORDED"
    /\ size_no_inline = 2
    /\ size_always_inline = 1
    /\ results[Len(results)].size_increase_percent = <<-50, 1>>

\* a conditional branch, a loop of any kind, a switch-case label, a conditional
\* expression
DecisionPoints ==
    {"IF_STMT", "FOR_STMT", "WHILE_STMT", "DO_STMT", "CXX_FOR_RANGE_STMT",
     "CASE_STMT", "CONDITIONAL_OPERATOR"}

\* C10: the cyclomatic_complexity get_features returns is 1 plus the number of
\* nodes inside the function's extent that are a conditional branch, a loop of
\* any kind, a switch-case label or a conditional expression.
C10_ComplexityCountsEveryDecision ==
    (ex_pc = "find" /\ cursor # 0 /\ ej > 1) =>
        all_features[Len(all_features)].features.cyclomatic_complexity =
            1 + Cardinality({k \in DOMAIN tu :
                    /\ k > cursor
                    /\ \A m \in (cursor + 1)..k : tu[m].depth > tu[cursor].depth
                    /\ InExtent(tu, cursor, k)
                    /\ tu[k].kind \in DecisionPoints})

\* the top-level cursor a cursor of depth 2 is a child of
ParentOf(k) ==
    CHOOSE c \in 1..k : tu[c].depth = 1 /\ \A m \in (c + 1)..k : tu[m].depth > 1

\* the cursors the search for a name may return: for a plain name the children
\* of the root that declare a function or function template of that name, for
\* Class::method the methods of that name that are members of a top-level
\* class or struct of that name
Candidates(name) ==
    IF Len(name) = 1
    THEN {k \in DOMAIN tu :
            /\ tu[k].depth = 1
            /\ tu[k].kind \in {"FUNCTION_DECL", "FUNCTION_TEMPLATE"}
            /\ tu[k].spelling = name[1]}
    ELSE {k \in DOMAIN tu :
            /\ tu[k].depth = 2
            /\ tu[k].kind = "CXX_METHOD"
            /\ tu[k].spelling = name[2]
            /\ tu[ParentOf(k)].kind \in {"CLASS_DECL", "STRUCT_DECL"}
            /\ tu[ParentOf(k)].spelling = name[1]}

\* C11: find_function_cursor returns the first candidate in child order (a
\* child of the root for a plain name, a member of a top-level class or struct
\* of that name for Class::method), never a deeper node, and None, raising
\* nothing, when there is no candidate.
C11_FirstTopLevelMatch ==
    /\ ex_pc = "features" =>
          /\ cursor \in Candidates(target_data[ei].functions[ej])
          /\ \A k \in Candidates(target_data[ei].functions[ej]) : cursor <= k
    /\ (ex_pc = "find" /\ ej > 1 /\ cursor = 0) =>
          Candidates(target_data[ei].functions[ej - 1]) = {}

\* the first class named C has no method m: the first of the two methods m of
\* the struct C declared after it is found
C11_Witness ==
    /\ ex_pc = "features"
    /\ target_data[ei].functions[ej] = <<"C", "m">>
    /\ tu[1].kind = "CLASS_DECL"
    /\ tu[2].kind = "STRUCT_DECL"
    /\ cursor = 3
    /\ Cardinality(Candidates(<<"C", "m">>)) = 2

\* C12: get_features is idempotent and deterministic: every call starts from
\* freshly assigned counters whatever the call before left in them, and two
\* calls on the same function of the same source (a manifest that names a
\* function twice) give rows equal in every field.
C12_SameFunctionSameFeatures ==
    /\ (ex_pc = "walk" /\ node = 1) =>
          complexity = 1 /\ body_stmts = 0 /\ local_vars = 0
    /\ \A i, j \in 1..Len(all_features) :
          (/\ all_features[i].function_name = all_features[j].function_name
           /\ all_features[i].file_name = all_features[j].file_name)
              => all_features[i].features = all_features[j].features

\* the manifest names f twice; both calls found two decision points, two
\* statements and three tokens
C12_Witness ==
    /\ Len(all_features) = 2
    /\ all_features[1].function_name = <<"f">>
    /\ all_features[2].function_name = <<"f">>
    /\ all_features[2].features.cyclomatic_complexity = 3
    /\ all_features[2].features.body_size_stmts = 2
    /\ all_features[2].features.token_count = 3
    /\ all_features[1].features = all_features[2].features

\* the nodes of the walk from the cursor found that pass the extent test: the
\* cursor itself and the cursors below it whose extent lies inside its extent
NodesInExtent ==
    {k \in DOMAIN tu :
        /\ k >= cursor
        /\ \A m \in (cursor + 1)..k : tu[m].depth > tu[cursor].depth
        /\ InExtent(tu, cursor, k)}

\* C13: body_size_stmts is the number of statement nodes inside the function's
\* extent less one, the block that is the function's body: a block nested in
\* the body is counted.
C13_OnlyBodyBlockExcluded ==
    (ex_pc = "find" /\ cursor # 0 /\ ej > 1) =>
        all_features[Len(all_features)].features.body_size_stmts =
            Cardinality({k \in NodesInExtent : is_statement(tu[k].kind)}) - 1

\* the order of a target's states
StateOrder ==
    {<<"PENDING", "NOT_FOUND">>, <<"PENDING", "MUTATED">>,
     <<"PENDING", "MUTATION_FAILED">>,
     <<"MUTATED", "BASELINE_PROBED">>, <<"MUTATED", "PROBE_FAILED">>,
     <<"BASELINE_PROBED", "FORCED_PROBED">>,
     <<"FORCED_PROBED", "RECORDED">>, <<"FORCED_PROBED", "SKIPPED">>}

\* C14: every step of the driver keeps the per-target state order: a target
\* changes state along the order only, so a mutation failure comes straight
\* from PENDING, before any toolchain invocation for the target, and never
\* after its baseline probe; the toolchain is invoked for the baseline probe
\* only on a target just mutated, and for the forced probe only after the
\* baseline probe and a second mutation that succeeded.
C14_ProbesOnlyAfterMutation ==
    [][/\ \A t \in TargetIds :
             tstate'[t] # tstate[t] => <<tstate[t], tstate'[t]>> \in StateOrder
       /\ (pc = "compile_noinline" /\ pc' # pc) =>
             /\ tstate[cur] = "MUTATED"
             /\ ~NoPatternMatches(original_content, func)
       /\ (pc = "compile_always_inline" /\ pc' # pc) =>
             /\ tstate[cur] = "BASELINE_PROBED"
             /\ ~NoPatternMatches(original_content, func)
       /\ (\E t \in TargetIds : tstate'[t] = "MUTATION_FAILED" /\ tstate[t] = "PENDING")
             => /\ toolchain' = toolchain
                /\ size_no_inline' = size_no_inline
                /\ temp_source' = temp_source]_vars

\* the first target's mutation failed and the toolchain has not been invoked
\* once; the driver is about to go on to the second target
C14_Witness ==
    /\ pc = "next_func"
    /\ cur = <<1, 1>>
    /\ tstate[cur] = "MUTATION_FAILED"
    /\ toolchain.exit = Unset
    /\ temp_source = Absent
    /\ original_content # << >>

\* a lexeme of the source proper: neither whitespace nor an attribute
IsCode(lexeme) == lexeme # " " /\ lexeme \notin Attributes

\* the text is content with the one attribute put in front of a signature of
\* the function, and nothing else of the code changed
IsVariantOf(text, content, name, attribute) ==
    /\ Cardinality({k \in DOMAIN text : text[k] \in Attributes}) = 1
    /\ \E k \in DOMAIN text :
          /\ text[k] = attribute
          /\ IsType(text, SkipWs(text, k + 1))
          /\ SkipWs(text, SkipWs(text, k + 1) + 1) <= Len(text)
          /\ text[SkipWs(text, SkipWs(text, k + 1) + 1)] = name
    /\ SelectSeq(text, IsCode) = SelectSeq(content, IsCode)

\* C15: whenever the toolchain is invoked (and while it runs), the scratch file
\* holds the variant of the current target's source with the directive being
\* measured: no-inline for the baseline probe, always-inline for the forced
\* probe, which comes after the baseline probe; never the content an earlier
\* target or the other directive left there.
C15_ScratchHoldsCurrentVariant ==
    /\ pc \in {"compile_noinline", "wait_noinline"} =>
          /\ IsVariantOf(temp_source, original_content, func, NOINLINE)
          /\ temp_source =
                modify_source_for_function(original_content, func, NOINLINE).text
          /\ tstate[cur] = "MUTATED"
    /\ pc \in {"compile_always_inline", "wait_always_inline"} =>
          /\ IsVariantOf(temp_source, original_content, func, ALWAYS_INLINE)
          /\ temp_source =
                modify_source_for_function(original_content, func, ALWAYS_INLINE).text
          /\ tstate[cur] = "BASELINE_PROBED"

\* the forced probe of a target of the second file, after a target of the
\* first file was skipped for a failed compile and the other for a failed
\* mutation
C15_Witness ==
    /\ pc = "compile_always_inline"
    /\ fi = 2
    /\ tstate[<<1, 1>>] = "SKIPPED" /\ probed[<<1, 1>>] = "absent"
    /\ tstate[<<1, 2>>] = "MUTATION_FAILED"
    /\ IsVariantOf(temp_source, original_content, func, ALWAYS_INLINE)

====
